---- MODULE Spec2Model ----
(***************************************************************************)
(* Model of yt_summary.py: the pipeline driven by main (download_audio,    *)
(* transcribe_audio_faster, the transcript file write,                     *)
(* num_tokens_from_string, get_brief, console.print), together with the    *)
(* part of the POSIX file system and of os.path that main's paths go       *)
(* through.                                                                *)
(*                                                                         *)
(* Strings that are paths are sequences of lexemes: "/" and "." are the    *)
(* separator and the dot, every other lexeme is a run of characters that   *)
(* contains neither.  Transcripts are sequences of Unicode code points and *)
(* file contents are sequences of bytes.  An optional value (None in the   *)
(* source) is <<>> and a present value x is <<x>>.                         *)
(***************************************************************************)
EXTENDS Integers, Sequences, FiniteSets, TLC

\* Longest transcript, in code points, the speech-to-text model returns.
MaxLen == 2

None == <<>>
Some(x) == <<x>>

--------------------------------------------------------------------------
\* Strings and os.path (posixpath)

RECURSIVE rfind(_, _)
\* str.rfind: the last index of lexeme c in s, 0 when absent.
rfind(s, c) ==
    IF s = <<>> THEN 0
    ELSE IF s[Len(s)] = c THEN Len(s)
    ELSE rfind(SubSeq(s, 1, Len(s) - 1), c)

\* s.rsplit('.', 1)[0]
rsplit_dot_first(s) ==
    IF rfind(s, ".") = 0 THEN s ELSE SubSeq(s, 1, rfind(s, ".") - 1)

\* os.path.splitext(p)[0]: the last dot after the last separator splits,
\* unless every lexeme between the separator and that dot is a dot.
os_path_splitext_root(p) ==
    LET sepIndex == rfind(p, "/")
        dotIndex == rfind(p, ".")
    IN  IF dotIndex > sepIndex
           /\ \E i \in (sepIndex + 1)..(dotIndex - 1) : p[i] # "."
        THEN SubSeq(p, 1, dotIndex - 1)
        ELSE p

\* os.path.join(a, b)
os_path_join(a, b) ==
    IF b # <<>> /\ b[1] = "/" THEN b
    ELSE IF a = <<>> \/ a[Len(a)] = "/" THEN a \o b
    ELSE a \o <<"/">> \o b

RECURSIVE SplitSep(_)
\* p.split('/'): the components of p, each a sequence of lexemes.
SplitSep(p) ==
    IF rfind(p, "/") = 0 THEN <<p>>
    ELSE Append(SplitSep(SubSeq(p, 1, rfind(p, "/") - 1)),
                SubSeq(p, rfind(p, "/") + 1, Len(p)))

\* The components normpath keeps: not empty, not "." (no input has "..").
KeptComponents(p) ==
    SelectSeq(SplitSep(p), LAMBDA c : c # <<>> /\ c # <<".">>)

\* The working directory of the process.
cwd == <<"/", "w">>

\* The file system's name for path p: the components from the root of
\* normpath(join(cwd, p)).
Resolve(p) == KeptComponents(os_path_join(cwd, p))

RECURSIVE JoinSep(_)
JoinSep(comps) ==
    IF comps = <<>> THEN <<>>
    ELSE <<"/">> \o comps[1] \o JoinSep(Tail(comps))

\* os.path.abspath(p)
os_path_abspath(p) ==
    IF Resolve(p) = <<>> THEN <<"/">> ELSE JoinSep(Resolve(p))

\* The directory a resolved file name lies directly in.
Parent(r) == SubSeq(r, 1, Len(r) - 1)

\* A resolved directory and all its ancestors: what os.makedirs ensures.
Ancestors(r) == { SubSeq(r, 1, n) : n \in 0..Len(r) }

--------------------------------------------------------------------------
\* Text-mode file write, encoding='utf-8'

\* os.linesep on POSIX, as bytes: what a text-mode write turns "\n" into.
os_linesep == <<10>>

\* The bytes of one code point written through the text layer.
EncodeChar(c) ==
    IF c = 10 THEN os_linesep
    ELSE IF c < 128 THEN <<c>>
    ELSE IF c < 2048 THEN <<192 + (c \div 64), 128 + (c % 64)>>
    ELSE <<224 + (c \div 4096), 128 + ((c \div 64) % 64), 128 + (c % 64)>>

RECURSIVE TextWrite(_)
\* output_file.write(s) on a file opened with 'w', encoding='utf-8'.
TextWrite(s) ==
    IF s = <<>> THEN <<>> ELSE EncodeChar(s[1]) \o TextWrite(Tail(s))

RECURSIVE Utf8Decode(_)
\* bytes.decode('utf-8') of well-formed input: the file's content as text.
Utf8Decode(b) ==
    IF b = <<>> THEN <<>>
    ELSE IF b[1] < 128 THEN <<b[1]>> \o Utf8Decode(Tail(b))
    ELSE IF b[1] < 224
         THEN <<(b[1] - 192) * 64 + (b[2] - 128)>> \o Utf8Decode(SubSeq(b, 3, Len(b)))
    ELSE <<(b[1] - 224) * 4096 + (b[2] - 128) * 64 + (b[3] - 128)>>
         \o Utf8Decode(SubSeq(b, 4, Len(b)))

--------------------------------------------------------------------------
\* Inputs

\* --video_url: one the media service can resolve, one it cannot.
ValidUrl == "https://youtu.be/EXAMPLE"
InvalidUrl == "not-a-video"
Urls == {ValidUrl, InvalidUrl}

\* --mp3_dir and --transcript_dir: the default, relative ones, an absolute one.
DirArgs == { <<".">>, <<"a">>, <<"t">>, <<"/", "x">> }

\* %(title)s as the media service reports it, and %(ext)s of the best audio.
Titles == { <<"T">>, <<"v", ".", "1">> }
Ext == <<"webm">>

\* Directories that always exist: the root and the working directory.
BaseDirs == { <<>>, <<<<"w">>>> }

\* Directory trees that may exist before the run, besides BaseDirs.
PreTrees ==
    LET wt == { <<<<"w">>, <<"t">>>> }
        x == { <<<<"x">>>> }
        wa == { <<<<"w">>, <<"a">>>> }
        waa == wa \cup { <<<<"w">>, <<"a">>, <<"a">>>> }
    IN  { A \cup B \cup C : A \in {{}, wt}, B \in {{}, x}, C \in {{}, wa, waa} }

\* Code points a transcript is made of: "a", "e" with acute accent, "\n".
Alphabet == {97, 233, 10}

\* What the speech-to-text model may return, the empty string included.
Transcripts == UNION { [1..n -> Alphabet] : n \in 0..MaxLen }

\* len(encoding.encode(s)): no token for the empty string, otherwise at
\* least one and at most one per byte.
TokenCounts(s) == IF s = <<>> THEN {0} ELSE 1..Len(TextWrite(s))

\* completion.choices[0].message.content: a Markdown text, or null.
ResponseContents == { None, Some("# Title") }

\* The bytes of the audio artifact the media service's postprocessor leaves.
AudioBytes == <<73, 68, 51>>

--------------------------------------------------------------------------
\* State

VARIABLES
    pc,             \* the statement of main that runs next
    args,           \* argparse namespace: video_url, mp3_dir, transcript_dir
    dirs,           \* file system: the directories that exist (resolved)
    files,          \* file system: resolved file name -> bytes
    mp3_file_path,  \* main's local, None until download_audio returns
    filename,       \* main's local, None until download_audio returns
    video_title,    \* info_dict['title'], None until the media service answers
    transcription,  \* main's local, None until the Transcriber returns
    output_path,    \* main's local, None until computed
    token_input,    \* the string num_tokens_from_string was called with
    num_tokens,     \* main's local, None until the Token Counter returns
    request,        \* what client.chat.completions.create was called with
    brief_txt,      \* main's local, None until get_brief returns
    rendered,       \* what console.print(Markdown(..)) has rendered
    error,          \* the exception that ended the run, "none" otherwise
    exit_code,      \* the process exit code, None while running
    calls           \* invocations of each external service so far

vars == <<pc, args, dirs, files, mp3_file_path, filename, video_title, transcription,
          output_path, token_input, num_tokens, request, brief_txt, rendered,
          error, exit_code, calls>>

Services == {"media", "whisper", "tokenizer", "completion"}

Init ==
    /\ pc = "Idle"
    /\ args \in [video_url : Urls, mp3_dir : DirArgs, transcript_dir : DirArgs]
    /\ dirs \in { BaseDirs \cup t : t \in PreTrees }
    /\ files = <<>>
    /\ mp3_file_path = None
    /\ filename = None
    /\ video_title = None
    /\ transcription = None
    /\ output_path = None
    /\ token_input = None
    /\ num_tokens = None
    /\ request = None
    /\ brief_txt = None
    /\ rendered = None
    /\ error = "none"
    /\ exit_code = None
    /\ calls = [s \in Services |-> 0]

\* One more invocation of service s.
Invoke(s) == calls' = [calls EXCEPT ![s] = @ + 1]

\* console.print(..); sys.exit(1) in download_audio's except clauses.
SysExit1(e) ==
    /\ pc' = "Failed"
    /\ error' = e
    /\ exit_code' = Some(1)

\* Uncaught with the exception swallowed by a handler that lets the
\* process end normally.
UncaughtExitsZero(e) ==
    /\ pc' = "Failed"
    /\ error' = e
    /\ exit_code' = Some(0)

\* An exception nothing catches: main unwinds, the interpreter prints the
\* trace and exits with status 1.
Uncaught(e) ==
    /\ pc' = "Failed"
    /\ error' = e
    /\ exit_code' = Some(1)

--------------------------------------------------------------------------
\* download_audio

\* ydl.prepare_filename(info_dict): outtmpl with the title and extension
\* filled in, the output directory included.
prepare_filename(output_dir, title) ==
    os_path_join(output_dir, title \o <<".">> \o Ext)

\* mp3_file = file_name.rsplit('.', 1)[0] + '.mp3'
mp3_file(file_name) == rsplit_dot_first(file_name) \o <<".", "mp3">>

\* main up to the call of download_audio: the arguments are parsed.
ParseArgs ==
    /\ pc = "Idle"
    /\ pc' = "Fetching"
    /\ UNCHANGED <<args, dirs, files, mp3_file_path, filename, video_title,
                   transcription,
                   output_path, token_input, num_tokens, request, brief_txt,
                   rendered, error, exit_code, calls>>

\* os.makedirs(output_dir, exist_ok=True)
makedirs(output_dir) == dirs' = dirs \cup Ancestors(Resolve(output_dir))

\* The download succeeds: the directory exists, the audio artifact is left
\* beside the prepared file name, and its absolute path is returned with
\* the prepared file name.
DownloadAudioOK ==
    /\ pc = "Fetching"
    /\ args.video_url = ValidUrl
    /\ \E t \in Titles :
         LET file_name == prepare_filename(args.mp3_dir, t)
         IN  /\ makedirs(args.mp3_dir)
             /\ Invoke("media")
             /\ files' = (Resolve(mp3_file(file_name)) :> AudioBytes) @@ files
             /\ mp3_file_path' = Some(os_path_abspath(mp3_file(file_name)))
             /\ filename' = Some(file_name)
             /\ video_title' = Some(t)
    /\ pc' = "Transcribing"
    /\ UNCHANGED <<args, transcription, output_path, token_input, num_tokens,
                   request, brief_txt, rendered, error, exit_code>>

\* DownloadAudioDownloadError with the sys.exit(1) left out: the error is
\* reported and a path is returned for an artifact that was never written.
DownloadAudioReturnsOnError ==
    /\ pc = "Fetching"
    /\ makedirs(args.mp3_dir)
    /\ Invoke("media")
    /\ LET file_name == prepare_filename(args.mp3_dir, <<"T">>)
       IN  /\ mp3_file_path' = Some(os_path_abspath(mp3_file(file_name)))
           /\ filename' = Some(file_name)
           /\ video_title' = Some(<<"T">>)
    /\ pc' = "Transcribing"
    /\ error' = "DownloadError"
    /\ UNCHANGED <<args, files, transcription, output_path, token_input,
                   num_tokens, request, brief_txt, rendered, exit_code>>

\* DownloadAudioDownloadError with a retry in place of the exit.
DownloadAudioRetries ==
    /\ pc = "Fetching"
    /\ calls["media"] < 3
    /\ makedirs(args.mp3_dir)
    /\ Invoke("media")
    /\ UNCHANGED <<pc, args, files, mp3_file_path, filename, video_title,
                   transcription, output_path, token_input, num_tokens,
                   request, brief_txt, rendered, error, exit_code>>

\* ydl.extract_info raises DownloadError (invalid or unreachable URL,
\* unavailable video, no format): reported, then sys.exit(1).
DownloadAudioDownloadError ==
    /\ pc = "Fetching"
    /\ makedirs(args.mp3_dir)
    /\ Invoke("media")
    /\ SysExit1("DownloadError")
    /\ UNCHANGED <<args, files, mp3_file_path, filename, video_title,
                   transcription,
                   output_path, token_input, num_tokens, request, brief_txt,
                   rendered>>

\* Any other exception inside the try block, raised by os.makedirs
\* (reached = FALSE) or after the media service was called: reported, then
\* sys.exit(1).
DownloadAudioUnexpected ==
    /\ pc = "Fetching"
    /\ \E reached \in BOOLEAN :
         IF reached
         THEN makedirs(args.mp3_dir) /\ Invoke("media")
         ELSE UNCHANGED <<dirs, calls>>
    /\ SysExit1("Exception")
    /\ UNCHANGED <<args, files, mp3_file_path, filename, video_title,
                   transcription,
                   output_path, token_input, num_tokens, request, brief_txt,
                   rendered>>

--------------------------------------------------------------------------
\* transcribe_audio_faster and the transcript file

\* The speech-to-text model reads the audio artifact and its segments are
\* concatenated; silence gives the empty string.
TranscribeOK ==
    /\ pc = "Transcribing"
    /\ Resolve(mp3_file_path[1]) \in DOMAIN files
    /\ Invoke("whisper")
    /\ \E t \in Transcripts : transcription' = Some(t)
    /\ pc' = "Writing"
    /\ UNCHANGED <<args, dirs, files, mp3_file_path, filename, video_title, output_path,
                   token_input, num_tokens, request, brief_txt, rendered,
                   error, exit_code>>

\* TranscribeRaises with the failure handled by downloading again.
TranscribeRaisesRefetch ==
    /\ pc = "Transcribing"
    /\ calls["whisper"] < 3
    /\ Invoke("whisper")
    /\ pc' = "Fetching"
    /\ UNCHANGED <<args, dirs, files, mp3_file_path, filename, video_title,
                   transcription, output_path, token_input, num_tokens,
                   request, brief_txt, rendered, error, exit_code>>

\* faster_whisper_model.transcribe, or the iteration over its segments,
\* raises.
TranscribeRaises ==
    /\ pc = "Transcribing"
    /\ Invoke("whisper")
    /\ Uncaught("TranscribeError")
    /\ UNCHANGED <<args, dirs, files, mp3_file_path, filename, video_title,
                   transcription,
                   output_path, token_input, num_tokens, request, brief_txt,
                   rendered>>

\* output_filename = os.path.splitext(filename)[0] + "_transcript.txt"
output_filename(file_name) ==
    os_path_splitext_root(file_name) \o <<"_transcript", ".", "txt">>

\* output_path = os.path.join(transcript_dir, output_filename)
OutputPath(transcript_dir, file_name) ==
    os_path_join(transcript_dir, output_filename(file_name))

\* open(output_path, 'w', encoding='utf-8') succeeds when the directory
\* the path lies in exists.
CanOpenForWriting(path) == Parent(Resolve(path)) \in dirs

\* The transcript is written and the file closed.
WriteTranscriptOK ==
    /\ pc = "Writing"
    /\ LET path == OutputPath(args.transcript_dir, filename[1])
       IN  /\ CanOpenForWriting(path)
           /\ output_path' = Some(path)
           /\ files' = (Resolve(path) :> TextWrite(transcription[1])) @@ files
    /\ pc' = "Counting"
    /\ UNCHANGED <<args, dirs, mp3_file_path, filename, video_title,
                   transcription,
                   token_input, num_tokens, request, brief_txt, rendered,
                   error, exit_code, calls>>

\* open raises FileNotFoundError: no file is created.
WriteTranscriptRaises ==
    /\ pc = "Writing"
    /\ LET path == OutputPath(args.transcript_dir, filename[1])
       IN  /\ ~CanOpenForWriting(path)
           /\ output_path' = Some(path)
    /\ Uncaught("FileNotFoundError")
    /\ UNCHANGED <<args, dirs, files, mp3_file_path, filename, video_title,
                   transcription,
                   token_input, num_tokens, request, brief_txt, rendered,
                   calls>>

--------------------------------------------------------------------------
\* num_tokens_from_string

\* The string main passes to num_tokens_from_string.
TokenCounterArgument == transcription[1]

CountTokensOK ==
    /\ pc = "Counting"
    /\ Invoke("tokenizer")
    /\ token_input' = Some(TokenCounterArgument)
    /\ \E n \in TokenCounts(TokenCounterArgument) : num_tokens' = Some(n)
    /\ pc' = "Summarizing"
    /\ UNCHANGED <<args, dirs, files, mp3_file_path, filename, video_title,
                   transcription,
                   output_path, request, brief_txt, rendered, error,
                   exit_code>>

\* tiktoken.get_encoding or encoding.encode raises.
CountTokensRaises ==
    /\ pc = "Counting"
    /\ Invoke("tokenizer")
    /\ token_input' = Some(TokenCounterArgument)
    /\ Uncaught("TokenizerError")
    /\ UNCHANGED <<args, dirs, files, mp3_file_path, filename, video_title,
                   transcription,
                   output_path, num_tokens, request, brief_txt, rendered>>

--------------------------------------------------------------------------
\* get_brief and the rendering

system_prompt == "You are an expert consultant ... Transcription: "

\* The keyword arguments of client.chat.completions.create.
CompletionRequest(transcript) ==
    [ model |-> "gpt-3.5-turbo",
      messages |-> << [role |-> "system", content |-> system_prompt],
                      [role |-> "user", content |-> transcript] >>,
      temperature |-> "0.1",
      max_tokens |-> 2048 ]

\* SummarizerArgument with surrounding whitespace stripped: a trailing
\* newline is dropped.
SummarizerArgumentStripped ==
    LET t == transcription[1]
    IN  IF t # <<>> /\ t[Len(t)] = 10 THEN SubSeq(t, 1, Len(t) - 1) ELSE t

\* SummarizerArgument cut to fit when the token count exceeds a ceiling.
SummarizerArgumentTruncated ==
    LET t == transcription[1]
    IN  IF num_tokens[1] > 1 THEN SubSeq(t, 1, 1) ELSE t

\* The string main passes to get_brief.
SummarizerArgument == transcription[1]

GetBriefOK ==
    /\ pc = "Summarizing"
    /\ Invoke("completion")
    /\ request' = Some(CompletionRequest(SummarizerArgument))
    /\ \E content \in ResponseContents : brief_txt' = Some(content)
    /\ pc' = "Rendering"
    /\ UNCHANGED <<args, dirs, files, mp3_file_path, filename, video_title,
                   transcription,
                   output_path, token_input, num_tokens, rendered, error,
                   exit_code>>

\* GetBriefRaises with a cleanup that removes the transcript file.
GetBriefRaisesCleansUp ==
    /\ pc = "Summarizing"
    /\ Invoke("completion")
    /\ request' = Some(CompletionRequest(SummarizerArgument))
    /\ files' = [r \in DOMAIN files \ {Resolve(output_path[1])} |-> files[r]]
    /\ Uncaught("APIError")
    /\ UNCHANGED <<args, dirs, mp3_file_path, filename, video_title,
                   transcription, output_path, token_input, num_tokens,
                   brief_txt, rendered>>

\* The completion call raises (no server, HTTP error, no choice).
GetBriefRaises ==
    /\ pc = "Summarizing"
    /\ Invoke("completion")
    /\ request' = Some(CompletionRequest(SummarizerArgument))
    /\ Uncaught("APIError")
    /\ UNCHANGED <<args, dirs, files, mp3_file_path, filename, video_title,
                   transcription,
                   output_path, token_input, num_tokens, brief_txt, rendered>>

\* console.print(Markdown(brief_txt)), then main returns: exit status 0.
RenderOK ==
    /\ pc = "Rendering"
    /\ brief_txt[1] # None
    /\ rendered' = brief_txt[1]
    /\ pc' = "Done"
    /\ exit_code' = Some(0)
    /\ UNCHANGED <<args, dirs, files, mp3_file_path, filename, video_title,
                   transcription,
                   output_path, token_input, num_tokens, request, brief_txt,
                   error, calls>>

\* Markdown(None) raises: the completion had no text content.
RenderRaises ==
    /\ pc = "Rendering"
    /\ brief_txt[1] = None
    /\ Uncaught("TypeError")
    /\ UNCHANGED <<args, dirs, files, mp3_file_path, filename, video_title,
                   transcription,
                   output_path, token_input, num_tokens, request, brief_txt,
                   rendered, calls>>

--------------------------------------------------------------------------

Next ==
    \/ ParseArgs
    \/ DownloadAudioOK
    \/ DownloadAudioDownloadError
    \/ DownloadAudioUnexpected
    \/ TranscribeOK
    \/ TranscribeRaises
    \/ WriteTranscriptOK
    \/ WriteTranscriptRaises
    \/ CountTokensOK
    \/ CountTokensRaises
    \/ GetBriefOK
    \/ GetBriefRaises
    \/ RenderOK
    \/ RenderRaises

Spec == Init /\ [][Next]_vars

--------------------------------------------------------------------------
\* Vocabulary of the properties

\* The pipeline stage a statement of main belongs to: the transcript file
\* is written in the Transcribing stage, the summary rendered in the
\* Summarizing stage.
StageOf(p) ==
    CASE p = "Writing" -> "Transcribing"
      [] p = "Rendering" -> "Summarizing"
      [] OTHER -> p

StageOrder == <<"Idle", "Fetching", "Transcribing", "Counting", "Summarizing", "Done">>

Rank(stage) == CHOOSE i \in 1..Len(StageOrder) : StageOrder[i] = stage

Terminal == {"Done", "Failed"}

FetchErrors == {"DownloadError", "Exception"}
LaterErrors == {"TranscribeError", "FileNotFoundError", "TokenizerError", "APIError", "TypeError"}

\* A resolved file name whose last component ends in _transcript.txt.
IsTranscriptName(r) ==
    /\ r # <<>>
    /\ Len(r[Len(r)]) >= 3
    /\ SubSeq(r[Len(r)], Len(r[Len(r)]) - 2, Len(r[Len(r)])) = <<"_transcript", ".", "txt">>

NoTranscriptFile == \A r \in DOMAIN files : ~IsTranscriptName(r)

\* The audio artifact the Fetcher returned is on disk, unchanged.
AudioOnDisk ==
    /\ mp3_file_path # None
    /\ Resolve(mp3_file_path[1]) \in DOMAIN files
    /\ files[Resolve(mp3_file_path[1])] = AudioBytes

\* The transcript file main opened has been written and closed.
TranscriptWritten ==
    /\ output_path # None
    /\ Resolve(output_path[1]) \in DOMAIN files

\* <original-title>_transcript.txt directly in the --transcript_dir directory.
ExpectedTranscriptFile ==
    Append(Resolve(args.transcript_dir), video_title[1] \o <<"_transcript", ".", "txt">>)

--------------------------------------------------------------------------
\* C1: every step of a run either stays in its stage, moving on inside it,
\* or enters the next stage of Idle, Fetching, Transcribing, Counting,
\* Summarizing, Done once the current one has produced its result, or, on
\* an error, goes to Failed; nothing follows Done or Failed.
C1_ForwardOnly ==
    /\ [][ /\ pc \in Terminal => pc' = pc
           /\ (pc' # "Failed" /\ StageOf(pc') # StageOf(pc))
                 => Rank(StageOf(pc')) = Rank(StageOf(pc)) + 1
           /\ (pc' # pc /\ StageOf(pc') = StageOf(pc))
                 => (pc = "Transcribing" /\ pc' = "Writing")
                    \/ (pc = "Summarizing" /\ pc' = "Rendering")
           /\ error' # "none" => pc' = "Failed"
         ]_vars
    /\ [](/\ pc = "Failed" <=> error # "none"
          /\ pc = "Transcribing" => mp3_file_path # None
          /\ pc = "Counting" => transcription # None /\ TranscriptWritten
          /\ pc = "Summarizing" => num_tokens # None
          /\ pc = "Done" => rendered # None)

C1_Witness ==
    /\ pc = "Done"
    /\ \A s \in Services : calls[s] = 1

\* C2: once download_audio has failed with a download error, and in any
\* run on a URL the media service cannot resolve, the process has ended
\* with exit code 1, there is no transcript file, the Transcriber, the
\* Token Counter and the Summarizer were never invoked and nothing was
\* rendered.
C2_FetchFailure ==
    /\ error = "DownloadError" =>
         /\ pc = "Failed"
         /\ exit_code = Some(1)
         /\ NoTranscriptFile
         /\ transcription = None
         /\ calls["whisper"] = 0 /\ calls["tokenizer"] = 0 /\ calls["completion"] = 0
         /\ brief_txt = None /\ rendered = None
    /\ args.video_url = InvalidUrl =>
         /\ pc \in {"Idle", "Fetching", "Failed"}
         /\ pc = "Failed" => error \in FetchErrors

C2_Witness ==
    /\ args.video_url = InvalidUrl
    /\ error = "DownloadError"
    /\ exit_code = Some(1)

\* C3: once the transcript file has been written, the file
\* <original-title>_transcript.txt directly in the transcript directory
\* exists and holds exactly the encoded transcript.
C3_TranscriptLocation ==
    TranscriptWritten =>
        /\ ExpectedTranscriptFile \in DOMAIN files
        /\ files[ExpectedTranscriptFile] = TextWrite(transcription[1])

\* C4: the exit code is 1 after a fetch failure, is 0 exactly when the run
\* has rendered the summary with every stage completed, and is non-zero
\* after an exception of any later stage.
C4_ExitCodes ==
    /\ error \in FetchErrors => exit_code = Some(1)
    /\ exit_code = Some(0) <=> pc = "Done"
    /\ pc = "Done" =>
         /\ error = "none"
         /\ TranscriptWritten
         /\ num_tokens # None
         /\ rendered # None
    /\ error \in LaterErrors => exit_code # None /\ exit_code[1] # 0
    /\ error # "none" <=> pc = "Failed"

C4_Witness ==
    /\ error = "TokenizerError"
    /\ exit_code = Some(1)

\* C5: the string the Token Counter was called with and the user message
\* the Summarizer sent are the transcript the Transcriber returned, and
\* the transcript file holds exactly that string.
C5_TranscriptUnchanged ==
    /\ token_input # None =>
         /\ token_input = transcription
         /\ TranscriptWritten
         /\ Utf8Decode(files[Resolve(output_path[1])]) = token_input[1]
    /\ request # None =>
         /\ request[1].messages[2].content = transcription[1]
         /\ TranscriptWritten
         /\ Utf8Decode(files[Resolve(output_path[1])]) = request[1].messages[2].content

C5_Witness ==
    /\ request # None
    /\ transcription = Some(<<233, 10>>)

\* C6 as stated: a started Transcriber has a non-empty audio artifact, a
\* started Token Counter or Summarizer has a non-empty transcript.
C6_NonEmptyInputs ==
    /\ (pc = "Transcribing" \/ calls["whisper"] > 0) =>
         AudioOnDisk /\ files[Resolve(mp3_file_path[1])] # <<>>
    /\ (pc = "Counting" \/ calls["tokenizer"] > 0) =>
         transcription # None /\ transcription[1] # <<>>
    /\ (pc = "Summarizing" \/ calls["completion"] > 0) =>
         transcription # None /\ transcription[1] # <<>>

\* C6 amended: a started Transcriber has the non-empty audio artifact the
\* Fetcher returned; a started Token Counter or Summarizer has the
\* transcript the Transcriber returned, which may be empty.
C6_InputsExist ==
    /\ (pc = "Transcribing" \/ calls["whisper"] > 0) =>
         AudioOnDisk /\ files[Resolve(mp3_file_path[1])] # <<>>
    /\ (pc = "Counting" \/ calls["tokenizer"] > 0) => transcription # None
    /\ (pc = "Summarizing" \/ calls["completion"] > 0) => transcription # None

C6_Witness ==
    /\ pc = "Summarizing"
    /\ transcription = Some(<<>>)
    /\ num_tokens = Some(0)

\* C7: no external service is invoked twice, a service is invoked only
\* after every earlier one was, and once a run has an error no service is
\* invoked again.
C7_NoRetry ==
    /\ [](/\ \A s \in Services : calls[s] <= 1
          /\ calls["whisper"] <= calls["media"]
          /\ calls["tokenizer"] <= calls["whisper"]
          /\ calls["completion"] <= calls["tokenizer"]
          /\ error # "none" => pc = "Failed")
    /\ [][error # "none" => calls' = calls]_vars

C7_Witness ==
    /\ error = "APIError"
    /\ \A s \in Services : calls[s] = 1

\* C8: the request sent to the completion endpoint is determined by the
\* transcript alone, whatever the token count; the transcript file holds
\* the whole transcript; and the step in which the Token Counter returns
\* enters Summarizing whatever it returned.
C8_CountIsTelemetry ==
    /\ [](request # None =>
            /\ request[1] =
                 [ model |-> "gpt-3.5-turbo",
                   messages |-> << [role |-> "system", content |-> system_prompt],
                                   [role |-> "user", content |-> transcription[1]] >>,
                   temperature |-> "0.1",
                   max_tokens |-> 2048 ]
            /\ files[Resolve(output_path[1])] = TextWrite(transcription[1]))
    /\ [][(num_tokens = None /\ num_tokens' # None) =>
             pc' = "Summarizing" /\ files' = files /\ transcription' = transcription]_vars

C8_Witness ==
    /\ request # None
    /\ Len(transcription[1]) = 2
    /\ num_tokens[1] > 2

\* C9: no step removes a file or changes the content of one; the only
\* files are the audio artifact and the transcript file.
C9_FilesKept ==
    /\ [][\A r \in DOMAIN files : r \in DOMAIN files' /\ files'[r] = files[r]]_vars
    /\ [](\A r \in DOMAIN files :
            \/ (mp3_file_path # None /\ r = Resolve(mp3_file_path[1]))
            \/ (output_path # None /\ r = Resolve(output_path[1])
                /\ files[r] = TextWrite(transcription[1])))

C9_Witness ==
    /\ error = "APIError"
    /\ AudioOnDisk
    /\ TranscriptWritten
    /\ files[Resolve(output_path[1])] = TextWrite(transcription[1])

\* C10: while the transcript directory does not exist, the run gets no
\* further than opening the transcript file: there is no transcript file,
\* the Token Counter and the Summarizer were not invoked, and a run that
\* has got past Transcribing has failed with the audio artifact on disk.
C10_MissingTranscriptDir ==
    Resolve(args.transcript_dir) \notin dirs =>
        /\ pc \notin {"Counting", "Summarizing", "Rendering", "Done"}
        /\ NoTranscriptFile
        /\ calls["tokenizer"] = 0 /\ calls["completion"] = 0
        /\ (transcription # None /\ pc # "Writing") =>
              pc = "Failed" /\ error = "FileNotFoundError" /\ AudioOnDisk

====
